---------------------------- MODULE Spec2Model ----------------------------
(***************************************************************************)
(* A model of binder.py: main() reads the configuration, fetches the       *)
(* expansion table and the collection, normalizes the collection into the  *)
(* data frame data_pd, and then, for every configured Color, queries the   *)
(* rows of that colour above the price threshold, resolves the expansion   *)
(* of every row by one HTTP call per row, prints the table and adds the    *)
(* bucket to the running totals.                                           *)
(*                                                                         *)
(* Money is kept in cents throughout: the code divides by 100 in floating  *)
(* point only to print and to accumulate total_value.                      *)
(***************************************************************************)
EXTENDS Integers, Sequences, FiniteSets

(***************************************************************************)
(* Bounds of the model.                                                    *)
(***************************************************************************)
MaxLen == 2             \* records in the fetched collection

Range(s) == {s[i] : i \in DOMAIN s}

(***************************************************************************)
(* class Color: the codes of the members, in declaration order.            *)
(***************************************************************************)
MULTICOLOR == "M"

Color == <<"M", "W", "U", "B", "R", "G", "C", "L">>

Color_all(exclude_multi) ==
    SelectSeq(Color, LAMBDA c : ~(exclude_multi /\ c = MULTICOLOR))

(***************************************************************************)
(* get_config: Config.colors keeps the members of Color whose code is in   *)
(* the "colors" list of config.yaml.                                       *)
(***************************************************************************)
get_config(yaml_colors) ==
    SelectSeq(Color, LAMBDA c : c \in Range(yaml_colors))

(***************************************************************************)
(* expansions_dict: the fetched expansions of game 1, by id.               *)
(***************************************************************************)
Expansions ==
    << [id |-> 1, name |-> "Alpha", code |-> "LEA", game_id |-> 1],
       [id |-> 3, name |-> "Base Set", code |-> "BS", game_id |-> 5] >>

expansions_dict(expansions, game_id) ==
    LET kept == {i \in DOMAIN expansions : expansions[i].game_id = game_id}
        ids  == {expansions[i].id : i \in kept}
    IN  [e \in ids |->
            LET i == CHOOSE j \in kept : expansions[j].id = e
            IN  [name |-> expansions[i].name, code |-> expansions[i].code]]

exp_dict == expansions_dict(Expansions, 1)

(***************************************************************************)
(* The inputs of one run.  A raw record carries what main() reads of it:   *)
(* the colour (a string, null, or no such key), the price (has_price is    *)
(* FALSE when the record has no price_cents key) and the blueprint id.     *)
(* The blueprint id of a record that is never resolved is fixed.           *)
(***************************************************************************)
Absent == "<absent>"
Null   == "<null>"

RawColors  == {Absent, Null, "", "w", "U", "WU"}
RawPrices  == {100, 200}
Blueprints == {41, 42}
Thresholds == {0, 200}

RawRecords ==
    { r \in [color : RawColors, has_price : BOOLEAN,
             price_cents : RawPrices \cup {0}, blueprint_id : Blueprints] :
        /\ r.has_price <=> r.price_cents # 0
        /\ (r.color \in {Absent, Null} \/ ~r.has_price) => r.blueprint_id = 41 }

Inventories == UNION {[1..n -> RawRecords] : n \in 0..MaxLen}

YamlColors ==
    { <<"W">>, <<"M">>, <<"W", "M">>, <<"M", "W">>, <<"U", "W">>,
      <<"W", "U", "M">> }

VARIABLES
    yaml_colors,    \* config.yaml: the "colors" list, as written
    colors,         \* config.colors
    price_thresh,   \* config.price_cents_threshold
    data,           \* the fetched collection
    data_pd,        \* the normalized data frame
    pc,             \* where main() is
    ci,             \* position of the for loop in colors
    query,          \* the rows selected for colors[ci]
    expansion,      \* the expansion names apply() has produced so far
    calls,          \* GET requests issued to BLUEPRINT_URL, per blueprint id
    console,        \* the tables printed so far
    total_items,
    total_value,    \* in cents
    summary,        \* the final line printed, <<>> before that
    error           \* the exception that ended the run, "none" otherwise

vars == <<yaml_colors, colors, price_thresh, data, data_pd, pc, ci, query,
          expansion, calls, console, total_items, total_value, summary, error>>

(***************************************************************************)
(* The normalization chain of main().                                      *)
(***************************************************************************)
json_normalize(d) ==
    [i \in DOMAIN d |->
        [index |-> i - 1, color |-> d[i].color, has_price |-> d[i].has_price,
         price_cents |-> d[i].price_cents, blueprint_id |-> d[i].blueprint_id]]

\* x >= y on a price column: a missing price is NaN, and NaN compares False
Ge(r, cents) == r.has_price /\ r.price_cents >= cents

\* sort_values("price_cents", ascending=False) with the default kind
\* "quicksort", which is not stable: the priced rows come first, in any
\* order that is descending; the rows without a price come last (na_position
\* "last"), in their original order.  The order of equal prices is the
\* library's choice (numpy's introsort keeps it on short runs and permutes
\* it beyond its insertion-sort cutoff), so every descending order is an
\* outcome here.
IsSortOutcome(df, s) ==
    /\ Len(s) = Len(df)
    /\ Range(s) = Range(df)
    /\ \A i, j \in DOMAIN s : i < j =>
          \/ s[i].has_price /\ s[j].has_price /\ s[i].price_cents >= s[j].price_cents
          \/ s[i].has_price /\ ~s[j].has_price
          \/ ~s[i].has_price /\ ~s[j].has_price /\ s[i].index < s[j].index

sort_values(df) == { s \in [DOMAIN df -> Range(df)] : IsSortOutcome(df, s) }

dropna(df) == SelectSeq(df, LAMBDA r : r.color \notin {Absent, Null})

\* str.upper() of a colour
Upper(c) ==
    CASE c = "w"  -> "W"
      [] c = "u"  -> "U"
      [] c = "wu" -> "WU"
      [] OTHER    -> c

str_upper(df) == [i \in DOMAIN df |-> [df[i] EXCEPT !.color = Upper(@)]]

\* a column the frame does not have: no record carries the key
NoColumn(d) ==
    \/ \A i \in DOMAIN d : ~d[i].has_price
    \/ \A i \in DOMAIN d : d[i].color = Absent

(***************************************************************************)
(* The two queries of the for loop.                                        *)
(***************************************************************************)
\* the exclusion list narrowed to the configured colours
Selects_enabled_only(color, r) ==
    IF color # MULTICOLOR
    THEN r.color = color /\ Ge(r, price_thresh)
    ELSE r.color \notin Range(colors) /\ Ge(r, price_thresh)

\* a strict comparison with the threshold
Selects_strict(color, r) ==
    IF color # MULTICOLOR
    THEN r.color = color /\ Ge(r, price_thresh + 1)
    ELSE r.color \notin Range(Color_all(TRUE)) /\ Ge(r, price_thresh + 1)

Selects(color, r) ==
    IF color # MULTICOLOR
    THEN r.color = color /\ Ge(r, price_thresh)
    ELSE r.color \notin Range(Color_all(TRUE)) /\ Ge(r, price_thresh)

RECURSIVE price_sum(_)
price_sum(rows) ==
    IF rows = <<>> THEN 0 ELSE Head(rows).price_cents + price_sum(Tail(rows))

Init ==
    /\ yaml_colors \in YamlColors
    /\ colors = get_config(yaml_colors)
    /\ price_thresh \in Thresholds
    /\ data \in Inventories
    /\ data_pd = <<>>
    /\ pc = "normalize"
    /\ ci = 1
    /\ query = <<>>
    /\ expansion = <<>>
    /\ calls = [b \in Blueprints |-> 0]
    /\ console = <<>>
    /\ total_items = 0
    /\ total_value = 0
    /\ summary = <<>>
    /\ error = "none"

\* data_pd = json_normalize(data).sort_values(...).dropna(...).reset_index()
Normalize ==
    /\ pc = "normalize"
    /\ ~NoColumn(data)
    /\ \E s \in sort_values(json_normalize(data)) :
          data_pd' = str_upper(dropna(s))
    /\ pc' = "for"
    /\ UNCHANGED <<yaml_colors, colors, price_thresh, data, ci, query, expansion,
                   calls, console, total_items, total_value, summary, error>>

\* sort_values / dropna raise KeyError on a column that does not exist
NormalizeKeyError ==
    /\ pc = "normalize"
    /\ NoColumn(data)
    /\ pc' = "crashed"
    /\ error' = "KeyError: column"
    /\ UNCHANGED <<yaml_colors, colors, price_thresh, data, data_pd, ci, query,
                   expansion, calls, console, total_items, total_value, summary>>

\* for color in colors: query = data_pd.query(...)
Query ==
    /\ pc = "for"
    /\ ci <= Len(colors)
    /\ query' = SelectSeq(data_pd, LAMBDA r : Selects(colors[ci], r))
    /\ expansion' = <<>>
    /\ pc' = "apply"
    /\ UNCHANGED <<yaml_colors, colors, price_thresh, data, data_pd, ci, calls,
                   console, total_items, total_value, summary, error>>

\* get_expansion on the next row of query: the request succeeds and the
\* expansion is one of exp_dict
get_expansion ==
    /\ pc = "apply"
    /\ Len(expansion) < Len(query)
    /\ LET blueprint_id == query[Len(expansion) + 1].blueprint_id
       IN  /\ calls' = [calls EXCEPT ![blueprint_id] = @ + 1]
           /\ \E expansion_id \in DOMAIN exp_dict :
                 expansion' = Append(expansion, exp_dict[expansion_id].name)
    /\ UNCHANGED <<yaml_colors, colors, price_thresh, data, data_pd, pc, ci, query,
                   console, total_items, total_value, summary, error>>

\* resp.raise_for_status() raises
get_expansion_HTTPError ==
    /\ pc = "apply"
    /\ Len(expansion) < Len(query)
    /\ LET blueprint_id == query[Len(expansion) + 1].blueprint_id
       IN  calls' = [calls EXCEPT ![blueprint_id] = @ + 1]
    /\ pc' = "crashed"
    /\ error' = "HTTPError"
    /\ UNCHANGED <<yaml_colors, colors, price_thresh, data, data_pd, ci, query,
                   expansion, console, total_items, total_value, summary>>

\* the blueprint's expansion_id is not a key of exp_dict
get_expansion_KeyError ==
    /\ pc = "apply"
    /\ Len(expansion) < Len(query)
    /\ \E e \in Range(Expansions) : e.id \notin DOMAIN exp_dict
    /\ LET blueprint_id == query[Len(expansion) + 1].blueprint_id
       IN  calls' = [calls EXCEPT ![blueprint_id] = @ + 1]
    /\ pc' = "crashed"
    /\ error' = "KeyError: expansion_id"
    /\ UNCHANGED <<yaml_colors, colors, price_thresh, data, data_pd, ci, query,
                   expansion, console, total_items, total_value, summary>>

item_count(rows) == Len(rows)

\* the sum taken over the whole frame instead of the query
total_value_cents_of_frame(rows) == price_sum(data_pd)

total_value_cents(rows) == price_sum(rows)

\* console.print(table); total_items += ...; total_value += ...
PrintTable ==
    /\ pc = "apply"
    /\ Len(expansion) = Len(query)
    /\ console' = Append(console,
          [color |-> colors[ci],
           rows |-> [i \in DOMAIN query |->
                       [index |-> query[i].index, color |-> query[i].color,
                        price_cents |-> query[i].price_cents,
                        blueprint_id |-> query[i].blueprint_id,
                        expansion |-> expansion[i]]],
           item_count |-> item_count(query),
           total_value_cents |-> total_value_cents(query)])
    /\ total_items' = total_items + item_count(query)
    /\ total_value' = total_value + total_value_cents(query)
    /\ ci' = ci + 1
    /\ pc' = "for"
    /\ UNCHANGED <<yaml_colors, colors, price_thresh, data, data_pd, query,
                   expansion, calls, summary, error>>

\* print("*** Total number of items in the binder: ...")
PrintTotals ==
    /\ pc = "for"
    /\ ci > Len(colors)
    /\ summary' = <<total_items, total_value>>
    /\ pc' = "done"
    /\ UNCHANGED <<yaml_colors, colors, price_thresh, data, data_pd, ci, query,
                   expansion, calls, console, total_items, total_value, error>>

Next ==
    \/ Normalize
    \/ NormalizeKeyError
    \/ Query
    \/ get_expansion
    \/ get_expansion_HTTPError
    \/ get_expansion_KeyError
    \/ PrintTable
    \/ PrintTotals

Spec == Init /\ [][Next]_vars

(***************************************************************************)
(* Properties.                                                             *)
(***************************************************************************)
SevenCodes == {"W", "U", "B", "R", "G", "C", "L"}

\* the rows of the frames a run holds: the normalized frame, the current
\* query and the rows of the printed tables
Indexes(rows) == {rows[i].index : i \in DOMAIN rows}

Position(seq, x) == CHOOSE i \in DOMAIN seq : seq[i] = x

ResolutionFailed ==
    pc = "crashed" /\ error \in {"HTTPError", "KeyError: expansion_id"}

\* C1: for every blueprint id, at most one GET to BLUEPRINT_URL is issued
\* over the run, however many reported rows share the id.
AtMostOneLookupPerBlueprint == \A b \in Blueprints : calls[b] <= 1

\* C2: once the resolution of a blueprint has failed, no table has been
\* printed at any point of the run.
NoReportWhenResolutionFails == ResolutionFailed => console = <<>>

\* C3: the tables are printed in the order in which config.yaml lists the
\* colours.
ReportsInConfigOrder ==
    \A i, j \in DOMAIN console :
        i < j => Position(yaml_colors, console[i].color)
                   < Position(yaml_colors, console[j].color)

\* C4: a collection with a record that lacks price_cents produces no table
\* and no totals: the run aborts instead of skipping the record.
MissingPriceAborts ==
    (\E i \in DOMAIN data : ~data[i].has_price)
        => (console = <<>> /\ summary = <<>>)

\* C5 as stated: at the end of a run every normalized row at or above the
\* threshold is in the rows of exactly one printed table.
ExactlyOneBucket ==
    pc = "done" =>
        \A i \in DOMAIN data_pd :
            Ge(data_pd[i], price_thresh) =>
                Cardinality({k \in DOMAIN console :
                    data_pd[i].index \in Indexes(console[k].rows)}) = 1

\* the category a row belongs to: the one of its code, else multicolor
Home(r) == IF r.color \in SevenCodes THEN r.color ELSE "M"

\* C5 as amended: at the end of a run every normalized row at or above the
\* threshold is in the table of its category and in no other table, when
\* config.yaml lists that category, and in no table when it does not.
BucketOfHomeCategory ==
    pc = "done" =>
        \A i \in DOMAIN data_pd :
            Ge(data_pd[i], price_thresh) =>
                {k \in DOMAIN console :
                    data_pd[i].index \in Indexes(console[k].rows)}
                  = {k \in DOMAIN console :
                        /\ console[k].color = Home(data_pd[i])
                        /\ console[k].color \in Range(yaml_colors)}

BucketOfHomeCategoryWitness ==
    /\ pc = "done"
    /\ \E i, j \in DOMAIN data_pd :
          /\ Ge(data_pd[i], price_thresh)
          /\ Ge(data_pd[j], price_thresh)
          /\ Home(data_pd[i]) \in Range(yaml_colors)
          /\ Home(data_pd[j]) \notin Range(yaml_colors)
          /\ \E k \in DOMAIN console :
                data_pd[i].index \in Indexes(console[k].rows)

\* the records of the collection that the multicolor table must hold: a
\* colour that is a string, none of the seven codes once upper-cased, and a
\* price at or above the threshold
MulticolorRecords ==
    {i - 1 : i \in {j \in DOMAIN data :
        /\ data[j].color \notin {Absent, Null}
        /\ Upper(data[j].color) \notin SevenCodes
        /\ data[j].has_price
        /\ data[j].price_cents >= price_thresh}}

\* C6: the multicolor query, and the multicolor table once printed, hold
\* exactly the records at or above the threshold whose colour is none of
\* W, U, B, R, G, C, L, whatever other colours config.yaml lists.
MulticolorByExclusionOfSeven ==
    /\ (pc = "apply" /\ colors[ci] = "M") => Indexes(query) = MulticolorRecords
    /\ \A k \in DOMAIN console :
          console[k].color = "M" => Indexes(console[k].rows) = MulticolorRecords

MulticolorByExclusionOfSevenWitness ==
    /\ "W" \notin Range(yaml_colors)
    /\ \E k \in DOMAIN console :
          /\ console[k].color = "M"
          /\ \E i \in DOMAIN console[k].rows : console[k].rows[i].color = "WU"
    /\ \E i \in DOMAIN data_pd :
          data_pd[i].color = "W" /\ Ge(data_pd[i], price_thresh)

\* C7: no row of the normalized frame, of a query or of a printed table has
\* a colour that is null, absent or the empty string.
NoNullOrEmptyColor ==
    /\ \A i \in DOMAIN data_pd : data_pd[i].color \notin {Absent, Null, ""}
    /\ \A i \in DOMAIN query : query[i].color \notin {Absent, Null, ""}
    /\ \A k \in DOMAIN console : \A i \in DOMAIN console[k].rows :
          console[k].rows[i].color \notin {Absent, Null, ""}

RECURSIVE SumOver(_, _)
SumOver(f, S) ==
    IF S = {} THEN 0
    ELSE LET x == CHOOSE y \in S : TRUE IN f[x] + SumOver(f, S \ {x})

\* C8: every printed table counts its rows and sums their prices; the totals
\* printed at the end are the sums over the printed tables, and there is
\* one table per colour that config.yaml lists and none for any other.
AggregatesConsistent ==
    /\ \A k \in DOMAIN console :
          /\ console[k].item_count = Cardinality(DOMAIN console[k].rows)
          /\ console[k].total_value_cents =
                SumOver([i \in DOMAIN console[k].rows |->
                            console[k].rows[i].price_cents],
                        DOMAIN console[k].rows)
    /\ pc = "done" =>
          /\ summary[1] = SumOver([k \in DOMAIN console |-> console[k].item_count],
                                  DOMAIN console)
          /\ summary[2] = SumOver([k \in DOMAIN console |->
                                      console[k].total_value_cents],
                                  DOMAIN console)
          /\ {console[k].color : k \in DOMAIN console} = Range(yaml_colors)
          /\ Len(console) = Cardinality(Range(yaml_colors))

AggregatesConsistentWitness ==
    /\ pc = "done"
    /\ Len(console) >= 2
    /\ summary = <<2, 300>>
    /\ \A k \in DOMAIN console : console[k].item_count = 1

\* C9: in the normalized frame and in every query, a row's price is >= the
\* price of every later row.
PricesNonIncreasing ==
    /\ \A i, j \in DOMAIN data_pd :
          i < j => Ge(data_pd[i], data_pd[j].price_cents) /\ data_pd[j].has_price
    /\ \A i, j \in DOMAIN query :
          i < j => Ge(query[i], query[j].price_cents) /\ query[j].has_price

\* C10: rows of equal price keep, in the normalized frame, the relative
\* order their records had in the collection.
SortIsStable ==
    \A i, j \in DOMAIN data_pd :
        (/\ i < j
         /\ data_pd[i].has_price
         /\ data_pd[j].has_price
         /\ data_pd[i].price_cents = data_pd[j].price_cents)
            => data_pd[i].index < data_pd[j].index

=============================================================================
